---- MODULE Spec2Model ----
(***************************************************************************)
(* etcd-monitor: a periodic health-checking agent (src/etcd-monitor.go).   *)
(*                                                                         *)
(* The model follows the single goroutine of main(): start-up (interval    *)
(* parsing, TLS material loading), the immediate first call of             *)
(* checkEtcdHealth, the arming of the ticker, the registration of the      *)
(* signal channel and the select loop.  The environment is the ticker      *)
(* (which fires into a channel of capacity 1), the operating system        *)
(* (which delivers signals), the etcd server (probe outcomes) and          *)
(* CloudWatch (sink outcomes).                                             *)
(*                                                                         *)
(* float64 counts 0.0 and 1.0 are written 0 and 1.                         *)
(***************************************************************************)
EXTENDS Integers, Sequences, FiniteSets, TLC

\* ------------------------------------------------------------------ bounds
\* ticks started in one run
MaxTicks == 3
\* signals the operating system delivers in one run
MaxSignals == 2
\* firings of the ticker in a run
MaxFires == 3
\* members of a JSON object in a response body
MaxMembers == 2

\* ------------------------------------------------------- program constants
\* defaultInterval := 60
DefaultInterval == 60

VARIABLES
    \* start-up inputs (the environment and the command line)
    envInterval,    \* CHECK_INTERVAL, a sequence of characters (<<>>: unset or empty)
    flagInterval,   \* -interval: [given, text]
    certOK,         \* the certificate file is readable and valid
    keyOK,          \* the key file is readable and matches the certificate
    caFile,         \* "unreadable" | "notpem" | "pem"
    envStr,         \* the environment variable of each string setting: [set, text]
    flagStr,        \* the flag of each string setting: [given, text]
    counting,       \* the run is observed with its counters, up to their bounds
                    \* (FALSE: the counters stand still and the loop never ends)
    \* program state
    pc,             \* position of the main goroutine
    defaultInterval,\* the local of that name
    interval,       \* *interval after flag.Parse
    caCerts,        \* number of certificates in caCertPool
    cfg,            \* *address, *caFile, ... *awsRegion after flag.Parse
    ticker,         \* "none" | "running" | "stopped"
    tickC,          \* ticker.C, a channel of capacity 1: number of firings buffered
    fired,          \* firings of the ticker so far (sends attempted on ticker.C)
    signalCh,       \* signalCh, a channel of capacity 1: the signals buffered
    registered,     \* signal.Notify(signalCh) has been called
    retTo,          \* where checkEtcdHealth returns to
    count,          \* the argument of the current reportUnhealtyCount call
    statusCode,         \* resp.StatusCode of the current tick (0: no response)
    exit,           \* "running" | "0" | "1" | "2" | "signal"
    \* observation of the run
    probe,          \* what the probe of the current tick obtained (a class)
    nTicks,         \* calls of checkEtcdHealth so far
    reports,        \* calls of reportUnhealtyCount in the current tick
    puts,           \* calls of PutMetricData in the current tick
    attempts,       \* calls of PutMetricData in the run
    sinkReturns,    \* returns of PutMetricData in the run
    lastSink,       \* outcome of the last PutMetricData: "none" | "ok" | "err"
    point,          \* the MetricDatum and namespace of the last PutMetricData call
    activeTicks,    \* activations of checkEtcdHealth entered and not returned
    outstanding,    \* network calls issued and not returned
    nSignals,       \* signals delivered so far
    sigAt,          \* pc at the first signal that was not discarded ("none" before)
    sigKind,        \* that signal
    startedAfterSig,\* a tick started after that signal
    emitAfterSig    \* PutMetricData was called after that signal

cfgVars == <<envInterval, flagInterval, certOK, keyOK, caFile, envStr, flagStr,
             counting>>
startVars == <<defaultInterval, interval, caCerts, cfg>>
schedVars == <<ticker, tickC, fired, signalCh, registered>>
tickVars == <<retTo, count, statusCode, probe, reports, puts>>
sinkVars == <<attempts, sinkReturns, lastSink, point>>
loadVars == <<activeTicks, outstanding>>
sigVars == <<nSignals, sigAt, sigKind, startedAfterSig, emitAfterSig>>
vars == <<cfgVars, startVars, schedVars, tickVars, sinkVars, loadVars, sigVars,
          pc, nTicks, exit>>

\* a counter of the run, and its bound: the for loop of main has none
Inc(n) == IF counting THEN n + 1 ELSE n
Under(n, max) == counting => n < max

\* ------------------------------------------------------------ strconv.Atoi
Digits == {"0", "1", "2", "3", "4", "5", "6", "7", "8", "9"}

DigitVal(c) ==
    CASE c = "0" -> 0 [] c = "1" -> 1 [] c = "2" -> 2 [] c = "3" -> 3
      [] c = "4" -> 4 [] c = "5" -> 5 [] c = "6" -> 6 [] c = "7" -> 7
      [] c = "8" -> 8 [] c = "9" -> 9

RECURSIVE DigitsVal(_)
DigitsVal(s) ==
    IF s = <<>> THEN 0
    ELSE 10 * DigitsVal(SubSeq(s, 1, Len(s) - 1)) + DigitVal(s[Len(s)])

\* Atoi: an optional sign, then at least one digit and nothing else.
Atoi(s) ==
    LET signed == s # <<>> /\ s[1] \in {"-", "+"}
        body == IF signed THEN Tail(s) ELSE s
    IN  IF body = <<>> \/ \E i \in 1..Len(body) : body[i] \notin Digits
        THEN [err |-> TRUE, n |-> 0]
        ELSE [err |-> FALSE,
              n |-> IF signed /\ s[1] = "-" THEN 0 - DigitsVal(body)
                    ELSE DigitsVal(body)]

\* texts the interval is given as
IntervalTexts == {<<>>, <<"x">>, <<"0">>, <<"5">>, <<"-", "1">>}

\* ------------------------------------------------------ the string settings
\* each setting by the name of its flag
StrSettings ==
    {"address", "ca-file", "cert-file", "key-file", "name", "namespace", "region"}

\* defaultAddress, defaultCaFile, ... defaultRegion as first assigned
Builtin ==
    [s \in StrSettings |->
        CASE s = "address" -> "https://127.0.0.1:2379"
          [] s \in {"ca-file", "cert-file", "key-file"} -> ""
          [] s \in {"name", "namespace"} -> "etcd"
          [] s = "region" -> "us-east-1"]

\* os.Getenv: the value, or "" when the variable is not set
Getenv(v) == IF v.set THEN v.text ELSE ""

\* if a := os.Getenv(...); a != "" { default = a }
DefaultFor(s, env) == IF Getenv(env) # "" THEN Getenv(env) ELSE Builtin[s]

\* flag.String(name, default, ...) after flag.Parse()
ResolveEnvFirst(s, f, env) ==
    IF Getenv(env) # "" THEN Getenv(env)
    ELSE IF f.given THEN f.text ELSE Builtin[s]
Resolve(s, f, env) == IF f.given THEN f.text ELSE DefaultFor(s, env)

\* what an environment variable and a flag are given as
EnvStrs ==
    {[set |-> FALSE, text |-> ""], [set |-> TRUE, text |-> ""],
     [set |-> TRUE, text |-> "from-env"]}
FlagStrs ==
    {[given |-> FALSE, text |-> ""], [given |-> TRUE, text |-> ""],
     [given |-> TRUE, text |-> "from-flag"]}

\* --------------------------------------------------- the response body (JSON)
\* A body is a JSON object (a sequence of members, in wire order), or one of:
\*   "garbage"   text that is no JSON
\*   "truncated" a JSON text cut short
\*   "null"      the JSON literal null
\*   "array"     a JSON value of another type
Keys == {"health", "Health", "reason"}

JStr(s) == [t |-> "string", s |-> s]
JTrue == [t |-> "bool", s |-> "true"]
JNull == [t |-> "null", s |-> "null"]
JValues == {JStr("true"), JStr("false"), JStr("yes"), JTrue, JNull}

Members == [key : Keys, val : JValues]

Bodies ==
    {[kind |-> "object", members |-> m] :
        m \in UNION {[1..n -> Members] : n \in 0..MaxMembers}}
    \cup {[kind |-> k, members |-> <<>>] :
            k \in {"garbage", "truncated", "null", "array"}}

\* encoding/json matches an object key to a struct field by name, ignoring case
EqualFold(k, name) == (IF k = "Health" THEN "health" ELSE k) = name

\* One member stored into the Health struct: the field IsHealthy has the tag
\* `json:"health,string"`, so its value must be a JSON string holding a bool
\* literal.  JSON null (bare or quoted) leaves the field alone; any other value
\* saves an error (the first error is kept and decoding goes on).
StoreMember(m, st) ==
    IF ~EqualFold(m.key, "health") THEN st
    ELSE CASE m.val.t = "null" -> st
           [] m.val.t = "string" /\ m.val.s \in {"true", "false"} ->
                [st EXCEPT !.IsHealthy = (m.val.s = "true")]
           [] m.val.t = "string" /\ m.val.s = "null" -> st
           [] OTHER -> [st EXCEPT !.err = TRUE]

RECURSIVE StoreMembers(_, _)
StoreMembers(ms, st) ==
    IF ms = <<>> THEN st
    ELSE StoreMembers(Tail(ms), StoreMember(Head(ms), st))

\* json.Unmarshal(buff, &statusCode) with `var statusCode Health` (IsHealthy false)
UnmarshalDefaultHealthy(b) ==
    LET zero == [err |-> FALSE, IsHealthy |-> TRUE]
    IN  CASE b.kind \in {"garbage", "truncated", "array"} ->
                [zero EXCEPT !.err = TRUE]
          [] b.kind = "null" -> zero
          [] b.kind = "object" -> StoreMembers(b.members, zero)
Unmarshal(b) ==
    LET zero == [err |-> FALSE, IsHealthy |-> FALSE]
    IN  CASE b.kind \in {"garbage", "truncated", "array"} ->
                [zero EXCEPT !.err = TRUE]
          [] b.kind = "null" -> zero
          [] b.kind = "object" -> StoreMembers(b.members, zero)

\* What a body is, said without decoding it (the wire contract of /health):
\*   "wf_true", "wf_false"  exactly one member named health, a string holding
\*                          true or false; other members are not health
\*   "missing"              an object with no health member
\*   "truncated", "nonjson" as named
\*   "other"                anything else
HealthAt(b) == {i \in 1..Len(b.members) : EqualFold(b.members[i].key, "health")}

Classify(b) ==
    CASE b.kind = "garbage" -> "nonjson"
      [] b.kind = "truncated" -> "truncated"
      [] b.kind = "object" /\ HealthAt(b) = {} -> "missing"
      [] b.kind = "object" /\ Cardinality(HealthAt(b)) = 1
            /\ \A i \in HealthAt(b) :
                 /\ b.members[i].key = "health"
                 /\ b.members[i].val \in {JStr("true"), JStr("false")} ->
            IF \E i \in HealthAt(b) : b.members[i].val = JStr("true")
            THEN "wf_true" ELSE "wf_false"
      [] OTHER -> "other"

\* ioutil.ReadAll then json.Unmarshal: a read error, or a body and its decoding
ReadResults ==
    {[readErr |-> TRUE, class |-> "readerr", st |-> [err |-> FALSE, IsHealthy |-> FALSE]]}
    \cup {[readErr |-> FALSE, class |-> Classify(b), st |-> Unmarshal(b)] : b \in Bodies}

ProbeClasses ==
    {"none", "transport", "readerr", "nonjson", "truncated", "missing",
     "wf_true", "wf_false", "other"}

\* resp.StatusCode: the etcd /health endpoint answers 200, or 503 when it
\* reports itself unhealthy; any other server may answer anything
StatusCodes == {200, 503}

\* ------------------------------------------------------------------ signals
\* signal.Notify(signalCh) names no signal: every signal is relayed.  Before
\* it is called each signal has its default disposition.
Signals == {"SIGTERM", "SIGCHLD"}
DefaultTerminates(s) == s = "SIGTERM"

PCs == {"atoi", "flagparse", "loadkeypair", "readca", "firsttick",
        "get", "readall", "put", "newticker", "notify", "select"}
TickPCs == {"get", "readall", "put"}

\* ------------------------------------------------------------ the metric point
\* no PutMetricData call yet
NoPoint == [MetricName |-> "none"]

\* params of reportUnhealtyCount(c), called in tick number n: time.Now() is
\* read off a clock that shows the number of the tick
MetricPointAccumulating(c, n) ==
    [MetricName |-> "UnhealthyCount",
     DimensionName |-> "By cluster",
     DimensionValue |-> cfg["name"],
     Maximum |-> c,
     Minimum |-> c,
     SampleCount |-> n,
     Sum |-> c + (IF point = NoPoint THEN 0 ELSE point.Sum),
     Timestamp |-> n,
     Unit |-> "Count",
     Namespace |-> cfg["namespace"]]
MetricPoint(c, n) ==
    [MetricName |-> "UnhealthyCount",
     DimensionName |-> "By cluster",
     DimensionValue |-> cfg["name"],
     Maximum |-> c,
     Minimum |-> c,
     SampleCount |-> 1,
     Sum |-> c,
     Timestamp |-> n,
     Unit |-> "Count",
     Namespace |-> cfg["namespace"]]

\* ---------------------------------------------------------------------- Init
\* The string settings as given: one setting k is given as <<k, e, f>>, the
\* others are left alone.
Unset == [set |-> FALSE, text |-> ""]
Absent == [given |-> FALSE, text |-> ""]
AllProfiles == StrSettings \X EnvStrs \X FlagStrs
\* the profiles of the monitoring runs: nothing given, or the cluster name or
\* the namespace taken from the environment
RunProfiles ==
    {<<"name", Unset, Absent>>,
     <<"name", [set |-> TRUE, text |-> "from-env"], Absent>>,
     <<"namespace", [set |-> TRUE, text |-> "from-env"], Absent>>}

StartState(profiles) ==
    /\ envInterval \in IntervalTexts
    /\ flagInterval \in {[given |-> FALSE, text |-> <<>>]}
                        \cup {[given |-> TRUE, text |-> s] : s \in IntervalTexts}
    /\ certOK \in BOOLEAN
    /\ keyOK \in BOOLEAN
    /\ caFile \in {"unreadable", "notpem", "pem"}
    /\ \E p \in profiles :
         /\ envStr = [s \in StrSettings |-> IF s = p[1] THEN p[2] ELSE Unset]
         /\ flagStr = [s \in StrSettings |-> IF s = p[1] THEN p[3] ELSE Absent]
    /\ cfg = [s \in StrSettings |-> ""]
    /\ pc = "atoi"
    /\ defaultInterval = DefaultInterval
    /\ interval = 0
    /\ caCerts = 0
    /\ ticker = "none"
    /\ tickC = 0
    /\ fired = 0
    /\ signalCh = <<>>
    /\ registered = FALSE
    /\ retTo = "none"
    /\ count = 0
    /\ statusCode = 0
    /\ exit = "running"
    /\ probe = "none"
    /\ nTicks = 0
    /\ reports = 0
    /\ puts = 0
    /\ attempts = 0
    /\ sinkReturns = 0
    /\ lastSink = "none"
    /\ point = NoPoint
    /\ activeTicks = 0
    /\ outstanding = 0
    /\ nSignals = 0
    /\ sigAt = "none"
    /\ sigKind = "none"
    /\ startedAfterSig = FALSE
    /\ emitAfterSig = FALSE

\* A monitoring run: a string setting is given only in the runs whose other
\* inputs are the defaults with valid TLS material.
Init ==
    /\ StartState(RunProfiles)
    /\ counting = TRUE
    /\ (\E s \in StrSettings : envStr[s].set \/ flagStr[s].given) =>
            /\ envInterval = <<>> /\ ~flagInterval.given
            /\ certOK /\ keyOK /\ caFile = "pem"

\* Start-up alone, for every way one setting can be given
ConfigInit == StartState(AllProfiles) /\ counting = TRUE

\* A run of any length with the default settings and valid TLS material
LiveInit ==
    /\ StartState({<<"name", Unset, Absent>>})
    /\ counting = FALSE
    /\ envInterval = <<>> /\ ~flagInterval.given
    /\ certOK /\ keyOK /\ caFile = "pem"

\* log.Fatal (statusCode 1), flag's ExitOnError (statusCode 2), a panic (statusCode 2),
\* os.Exit(0): the process ends where it is.
Exit(status) ==
    /\ exit' = status
    /\ UNCHANGED pc

\* ------------------------------------------------------------------ start-up
\* CHECK_INTERVAL: a non-empty value that strconv.Atoi rejects is fatal
ParseEnvInterval ==
    /\ pc = "atoi" /\ exit = "running"
    /\ IF envInterval # <<>> /\ Atoi(envInterval).err
       THEN /\ Exit("1")
            /\ UNCHANGED defaultInterval
       ELSE /\ defaultInterval' =
                 IF envInterval # <<>> THEN Atoi(envInterval).n ELSE defaultInterval
            /\ pc' = "flagparse"
            /\ UNCHANGED exit
    /\ UNCHANGED <<cfgVars, interval, caCerts, cfg, schedVars, tickVars, sinkVars,
                   loadVars, sigVars, nTicks>>

\* flag.Int("interval", defaultInterval, ...), the seven flag.String calls with
\* their defaults from the environment, and flag.Parse(): a value the flag
\* package cannot parse ends the process with statusCode 2 (flag.ExitOnError).  The
\* texts of IntervalTexts carry no base prefix, so the flag's ParseInt agrees
\* with Atoi on them.
FlagParse ==
    /\ pc = "flagparse" /\ exit = "running"
    /\ IF flagInterval.given /\ Atoi(flagInterval.text).err
       THEN /\ Exit("2")
            /\ UNCHANGED <<interval, cfg>>
       ELSE /\ interval' =
                 IF flagInterval.given THEN Atoi(flagInterval.text).n
                 ELSE defaultInterval
            /\ cfg' = [s \in StrSettings |-> Resolve(s, flagStr[s], envStr[s])]
            /\ pc' = "loadkeypair"
            /\ UNCHANGED exit
    /\ UNCHANGED <<cfgVars, defaultInterval, caCerts, schedVars, tickVars,
                   sinkVars, loadVars, sigVars, nTicks>>

\* tls.LoadX509KeyPair(*certFile, *keyFile)
LoadKeyPair ==
    /\ pc = "loadkeypair" /\ exit = "running"
    /\ IF certOK /\ keyOK
       THEN pc' = "readca" /\ UNCHANGED exit
       ELSE Exit("1")
    /\ UNCHANGED <<cfgVars, startVars, schedVars, tickVars, sinkVars, loadVars,
                   sigVars, nTicks>>

\* ioutil.ReadFile(*caFile), then caCertPool.AppendCertsFromPEM(caCert), whose
\* result is not looked at; the client, the session and the banner follow.
LoadCA ==
    /\ pc = "readca" /\ exit = "running"
    /\ IF caFile = "unreadable"
       THEN /\ Exit("1")
            /\ UNCHANGED caCerts
       ELSE /\ caCerts' = IF caFile = "pem" THEN 1 ELSE 0
            /\ pc' = "firsttick"
            /\ UNCHANGED exit
    /\ UNCHANGED <<cfgVars, defaultInterval, interval, cfg, schedVars, tickVars,
                   sinkVars, loadVars, sigVars, nTicks>>

\* --------------------------------------------------------- checkEtcdHealth
\* The call of checkEtcdHealth up to its first blocking point, client.Get.
StartTick(ret) ==
    /\ pc' = "get"
    /\ retTo' = ret
    /\ nTicks' = Inc(nTicks)
    /\ reports' = 0
    /\ puts' = 0
    /\ probe' = "none"
    /\ statusCode' = 0
    /\ activeTicks' = activeTicks + 1
    /\ outstanding' = outstanding + 1
    /\ startedAfterSig' = (startedAfterSig \/ sigAt # "none")
    /\ UNCHANGED <<count, nSignals, sigAt, sigKind, emitAfterSig>>

\* reportUnhealtyCount(c) up to its blocking point, cw.PutMetricData: the probe's
\* call has returned and the sink's call is issued.
Report(c) ==
    /\ pc' = "put"
    /\ count' = c
    /\ reports' = reports + 1
    /\ puts' = puts + 1
    /\ attempts' = Inc(attempts)
    /\ point' = MetricPoint(c, nTicks)
    /\ outstanding' = (outstanding - 1) + 1
    /\ emitAfterSig' = (emitAfterSig \/ sigAt # "none")
    /\ UNCHANGED <<retTo, statusCode, sinkReturns, lastSink, activeTicks,
                   nSignals, sigAt, sigKind, startedAfterSig>>

\* the count of the three error returns of checkEtcdHealth
FailCount == 1

\* if status.IsHealthy { reportUnhealtyCount(0.0) } else { reportUnhealtyCount(1.0) }
HealthCountInverted(isHealthy) == IF isHealthy THEN 1 ELSE 0
HealthCount(isHealthy) == IF isHealthy THEN 0 ELSE 1

\* err != nil after json.Unmarshal: log, report, return
OnDecodeErrorSilent ==
    /\ pc' = retTo
    /\ activeTicks' = activeTicks - 1
    /\ outstanding' = outstanding - 1
    /\ UNCHANGED <<retTo, count, statusCode, reports, puts, sinkVars, sigVars>>
OnDecodeError == Report(FailCount)

\* main calls checkEtcdHealth() before the ticker exists
FirstTickGated ==
    /\ pc = "firsttick" /\ exit = "running"
    /\ pc' = "newticker"
    /\ UNCHANGED <<cfgVars, startVars, schedVars, tickVars, sinkVars, loadVars,
                   sigVars, nTicks, exit>>
FirstTick ==
    /\ pc = "firsttick" /\ exit = "running"
    /\ StartTick("newticker")
    /\ UNCHANGED <<cfgVars, startVars, schedVars, sinkVars, exit>>

\* client.Get returns: an error (no connection, TLS failure, the 5 s timeout) or a
\* response whose body is still to be read
GetReturn ==
    /\ pc = "get" /\ exit = "running"
    /\ \E ok \in BOOLEAN :
         IF ok
         THEN /\ pc' = "readall"
              /\ statusCode' \in StatusCodes
              /\ UNCHANGED <<retTo, count, probe, reports, puts, sinkVars,
                             loadVars, sigVars>>
         ELSE /\ probe' = "transport"
              /\ Report(FailCount)
    /\ UNCHANGED <<cfgVars, startVars, schedVars, nTicks, exit>>

\* ioutil.ReadAll returns and the body is decoded
ReadAllReturnChecksStatus ==
    /\ pc = "readall" /\ exit = "running"
    /\ \E r \in ReadResults :
         /\ probe' = r.class
         /\ IF r.readErr \/ statusCode # 200 THEN Report(FailCount)
            ELSE IF r.st.err THEN OnDecodeError
            ELSE Report(HealthCount(r.st.IsHealthy))
    /\ UNCHANGED <<cfgVars, startVars, schedVars, nTicks, exit>>
ReadAllReturn ==
    /\ pc = "readall" /\ exit = "running"
    /\ \E r \in ReadResults :
         /\ probe' = r.class
         /\ IF r.readErr THEN Report(FailCount)
            ELSE IF r.st.err THEN OnDecodeError
            ELSE Report(HealthCount(r.st.IsHealthy))
    /\ UNCHANGED <<cfgVars, startVars, schedVars, nTicks, exit>>

\* cw.PutMetricData returns; an error is logged; checkEtcdHealth returns
PutReturnRetry ==
    /\ pc = "put" /\ exit = "running"
    /\ \E o \in {"ok", "err"} :
         /\ lastSink' = o
         /\ sinkReturns' = Inc(sinkReturns)
         /\ IF o = "err" /\ puts < 2
            THEN /\ puts' = puts + 1
                 /\ attempts' = Inc(attempts)
                 /\ UNCHANGED <<pc, loadVars>>
            ELSE /\ pc' = retTo
                 /\ activeTicks' = activeTicks - 1
                 /\ outstanding' = outstanding - 1
                 /\ UNCHANGED <<puts, attempts>>
    /\ UNCHANGED <<cfgVars, startVars, schedVars, retTo, count, statusCode, probe,
                   reports, point, sigVars, nTicks, exit>>
PutReturn ==
    /\ pc = "put" /\ exit = "running"
    /\ \E o \in {"ok", "err"} :
         /\ lastSink' = o
         /\ sinkReturns' = Inc(sinkReturns)
    /\ pc' = retTo
    /\ statusCode' = 0
    /\ activeTicks' = activeTicks - 1
    /\ outstanding' = outstanding - 1
    /\ UNCHANGED <<cfgVars, startVars, schedVars, retTo, count, probe, reports,
                   puts, attempts, point, sigVars, nTicks, exit>>

\* ------------------------------------------------------------ the main loop
\* time.NewTicker(time.Duration(*interval) * time.Second) panics on a duration
\* that is not positive
NewTicker ==
    /\ pc = "newticker" /\ exit = "running"
    /\ IF interval <= 0
       THEN /\ Exit("2")
            /\ UNCHANGED ticker
       ELSE /\ ticker' = "running"
            /\ pc' = "notify"
            /\ UNCHANGED exit
    /\ UNCHANGED <<cfgVars, startVars, tickC, fired, signalCh, registered, tickVars,
                   sinkVars, loadVars, sigVars, nTicks>>

\* signal.Notify(signalCh)
Notify ==
    /\ pc = "notify" /\ exit = "running"
    /\ registered' = TRUE
    /\ pc' = "select"
    /\ UNCHANGED <<cfgVars, startVars, ticker, tickC, fired, signalCh, tickVars,
                   sinkVars, loadVars, sigVars, nTicks, exit>>

\* case <-ticker.C: checkEtcdHealth().  select takes any case that is ready.
SelectTickKeepsFiring ==
    /\ pc = "select" /\ exit = "running"
    /\ tickC > 0
    /\ Under(nTicks, MaxTicks)
    /\ tickC' = tickC
    /\ StartTick("select")
    /\ UNCHANGED <<cfgVars, startVars, ticker, fired, signalCh, registered,
                   sinkVars, exit>>
SelectTickAsync ==
    /\ pc \in {"select"} \cup TickPCs /\ exit = "running"
    /\ tickC > 0
    /\ Under(nTicks, MaxTicks)
    /\ tickC' = tickC - 1
    /\ StartTick("select")
    /\ UNCHANGED <<cfgVars, startVars, ticker, fired, signalCh, registered,
                   sinkVars, exit>>
SelectTick ==
    /\ pc = "select" /\ exit = "running"
    /\ tickC > 0
    /\ Under(nTicks, MaxTicks)
    /\ tickC' = tickC - 1
    /\ StartTick("select")
    /\ UNCHANGED <<cfgVars, startVars, ticker, fired, signalCh, registered,
                   sinkVars, exit>>

\* case s := <-signalCh: log, ticker.Stop(), os.Exit(0)
SelectSignalWhenIdle ==
    /\ pc = "select" /\ exit = "running"
    /\ tickC = 0
    /\ signalCh # <<>>
    /\ signalCh' = Tail(signalCh)
    /\ ticker' = "stopped"
    /\ Exit("0")
    /\ UNCHANGED <<cfgVars, startVars, tickC, fired, registered, tickVars,
                   sinkVars, loadVars, sigVars, nTicks>>
SelectSignal ==
    /\ pc = "select" /\ exit = "running"
    /\ signalCh # <<>>
    /\ signalCh' = Tail(signalCh)
    /\ ticker' = "stopped"
    /\ Exit("0")
    /\ UNCHANGED <<cfgVars, startVars, tickC, fired, registered, tickVars, sinkVars,
                   loadVars, sigVars, nTicks>>

\* -------------------------------------------------------------- environment
\* The ticker fires: a send on ticker.C that does not block, dropped when the
\* channel already holds a firing.
TimerFireQueued ==
    /\ ticker = "running" /\ exit = "running"
    /\ Under(fired, MaxFires)
    /\ fired' = Inc(fired)
    /\ tickC' = tickC + 1
    /\ UNCHANGED <<cfgVars, startVars, ticker, signalCh, registered, tickVars,
                   sinkVars, loadVars, sigVars, pc, nTicks, exit>>
TimerFire ==
    /\ ticker = "running" /\ exit = "running"
    /\ Under(fired, MaxFires)
    /\ fired' = Inc(fired)
    /\ tickC' = 1
    /\ UNCHANGED <<cfgVars, startVars, ticker, signalCh, registered, tickVars,
                   sinkVars, loadVars, sigVars, pc, nTicks, exit>>

\* The operating system delivers signal s.  After signal.Notify the os/signal
\* package sends it on signalCh without blocking (dropped when the channel is
\* full); before, the default disposition applies: the process is killed, or
\* the signal is discarded.
RelayedTerminationOnly(s) == registered /\ DefaultTerminates(s)
\* signal.Notify(signalCh) names no signal: every kind is relayed
Relayed(s) == registered

DeliverSignal(s) ==
    /\ exit = "running"
    /\ Under(nSignals, MaxSignals)
    /\ nSignals' = Inc(nSignals)
    /\ LET discarded == ~Relayed(s) /\ ~DefaultTerminates(s)
           first == sigAt = "none" /\ ~discarded
       IN  /\ sigAt' = IF first THEN pc ELSE sigAt
           /\ sigKind' = IF first THEN s ELSE sigKind
    /\ IF Relayed(s)
       THEN /\ signalCh' = IF signalCh = <<>> THEN <<s>> ELSE signalCh
            /\ UNCHANGED exit
       ELSE /\ exit' = IF DefaultTerminates(s) THEN "signal" ELSE exit
            /\ UNCHANGED signalCh
    /\ UNCHANGED <<cfgVars, startVars, ticker, tickC, fired, registered, tickVars,
                   sinkVars, loadVars, startedAfterSig, emitAfterSig, pc, nTicks>>

Next ==
    \/ ParseEnvInterval
    \/ FlagParse
    \/ LoadKeyPair
    \/ LoadCA
    \/ FirstTick
    \/ GetReturn
    \/ ReadAllReturn
    \/ PutReturn
    \/ NewTicker
    \/ Notify
    \/ SelectTick
    \/ SelectSignal
    \/ TimerFire
    \/ \E s \in Signals : DeliverSignal(s)

Spec == Init /\ [][Next]_vars

\* start-up up to the first tick, over all the ways the settings are given
NextConfig ==
    \/ ParseEnvInterval
    \/ FlagParse
    \/ LoadKeyPair
    \/ LoadCA

SpecConfig == ConfigInit /\ [][NextConfig]_vars

\* Runs of any length in which every network call returns, the loop proceeds
\* whenever a case of its select is ready, and select, which picks among the
\* ready cases at random, does not pass over a signal that is ready at every
\* visit for ever.
LiveSpec ==
    /\ LiveInit
    /\ [][Next]_vars
    /\ WF_vars(GetReturn)
    /\ WF_vars(ReadAllReturn)
    /\ WF_vars(PutReturn)
    /\ WF_vars(SelectTick \/ SelectSignal)
    /\ SF_vars(SelectSignal)

TypeOK ==
    /\ pc \in PCs
    /\ exit \in {"running", "0", "1", "2", "signal"}
    /\ probe \in ProbeClasses
    /\ tickC \in {0, 1}
    /\ Len(signalCh) <= 1
    /\ count \in {0, 1}
    /\ nTicks \in 0..MaxTicks

\* ================================================================== claims
\* the inputs of start-up that the program cannot use
MalformedInterval ==
    \/ envInterval # <<>> /\ Atoi(envInterval).err
    \/ flagInterval.given /\ Atoi(flagInterval.text).err

\* the certificate, the key and the CA file are all readable and valid
ValidTLS == certOK /\ keyOK /\ caFile = "pem"

\* a call of checkEtcdHealth has returned (the process was not killed inside it)
TickCompleted == nTicks > 0 /\ pc \notin TickPCs

\* C1: every tick makes exactly one call of reportUnhealtyCount and exactly one
\* PutMetricData attempt on every path: a tick that has returned made one of
\* each, a tick in flight has made at most one, the attempts of the run are one
\* per tick that reached the sink, and the count passed is 0.0 or 1.0.
C1_OneEmissionPerTick ==
    /\ TickCompleted => reports = 1 /\ puts = 1
    /\ pc \in {"get", "readall"} => reports = 0 /\ puts = 0
    /\ pc = "put" => reports = 1 /\ puts = 1
    /\ attempts = nTicks - (IF pc \in {"get", "readall"} THEN 1 ELSE 0)
    /\ count \in {0, 1}

\* a second tick has returned after a body that did not decode
C1_Witness ==
    /\ nTicks = 2 /\ pc = "select" /\ exit = "running"
    /\ probe = "nonjson" /\ puts = 1 /\ attempts = 2

\* C2: a tick whose probe obtained a well-formed health payload emits 0.0 when
\* the health boolean is true and 1.0 when it is false.
C2_WellFormedCount ==
    /\ probe = "wf_true" => puts = 1 /\ count = 0
    /\ probe = "wf_false" => puts = 1 /\ count = 1

\* PutMetricData is outstanding with 0.0 for a payload saying true
C2_Witness == pc = "put" /\ probe = "wf_true" /\ count = 0 /\ outstanding = 1

\* C3: a tick whose probe failed (transport failure, unreadable body, truncated
\* body, body that is no JSON, object without the health field) emits 1.0.
ProbeFailures == {"transport", "readerr", "truncated", "nonjson", "missing"}

C3_FailureCountsUnhealthy ==
    probe \in ProbeFailures => puts = 1 /\ count = 1

\* PutMetricData is outstanding with 1.0 for an object without the health field
C3_Witness == pc = "put" /\ probe = "missing" /\ count = 1 /\ outstanding = 1

\* C4: a signal delivered while the loop is idle between ticks (at its select,
\* in a run with valid start-up inputs) is followed by no tick and no
\* PutMetricData call, and the process exits with statusCode 0.
C4_IdleSignalStopsTicks ==
    (ValidTLS /\ sigAt = "select") =>
        /\ ~startedAfterSig
        /\ ~emitAfterSig
        /\ exit \in {"running", "0"}

\* C5: a termination signal received while a tick is in flight lets that tick
\* finish, stops the ticker and lets no new tick start.
C5_InFlightTickIsLast ==
    (ValidTLS /\ sigKind = "SIGTERM" /\ sigAt \in TickPCs) =>
        /\ exit # "signal"
        /\ ~startedAfterSig
        /\ (exit = "0" => ticker = "stopped")

\* C6: with an interval of zero or less (and otherwise valid start-up inputs) no
\* probe is issued and no emission is attempted.
C6_NonPositiveIntervalAborts ==
    (ValidTLS /\ pc \notin {"atoi", "flagparse"} /\ interval <= 0) =>
        nTicks = 0 /\ attempts = 0

\* C7: with a malformed interval, or an unreadable or invalid certificate, key
\* or CA file, no probe is issued and no emission is attempted.
C7_InvalidStartupAborts ==
    (MalformedInterval \/ ~certOK \/ ~keyOK \/ caFile # "pem") =>
        nTicks = 0 /\ attempts = 0

\* C8: once the first tick has started (in a run with valid TLS material) the
\* process terminates only through a signal, and from the select loop only with
\* statusCode 0.
C8_OnlySignalTerminates ==
    (ValidTLS /\ nTicks > 0 /\ exit # "running") =>
        /\ sigAt # "none"
        /\ (registered => exit = "0")

\* C9: a failed PutMetricData is swallowed: the call is made once per tick and
\* never again, and its return, whatever the outcome, leaves checkEtcdHealth
\* for the caller with the scheduler as it was, nothing pending.
C9_SinkFailureSwallowed ==
    /\ [](attempts = sinkReturns + (IF pc = "put" THEN 1 ELSE 0))
    /\ [][sinkReturns' # sinkReturns =>
            /\ pc' = retTo
            /\ attempts' = attempts /\ puts' = puts
            /\ outstanding' = 0 /\ activeTicks' = 0
            /\ exit' = exit
            /\ UNCHANGED <<cfgVars, startVars, schedVars, retTo, count, nTicks>>]_vars

\* the tick after a failed PutMetricData is at its own, single attempt
C9_Witness ==
    /\ lastSink = "err" /\ pc = "put" /\ nTicks = 2
    /\ attempts = 2 /\ sinkReturns = 1 /\ puts = 1

\* C10: at most one tick executes and at most one network call is outstanding,
\* and a tick starts only when no tick and no call is in progress.
C10_TicksSerialized ==
    /\ [](/\ activeTicks <= 1 /\ outstanding <= 1
          /\ (pc \in TickPCs <=> activeTicks = 1)
          /\ (pc \in TickPCs <=> outstanding = 1))
    /\ [][nTicks' # nTicks => activeTicks = 0 /\ outstanding = 0]_vars

\* a timer-triggered tick is in flight while the next firing is already buffered
C10_Witness ==
    /\ pc \in TickPCs /\ retTo = "select" /\ tickC = 1
    /\ activeTicks = 1 /\ outstanding = 1 /\ exit = "running"

\* C11: a signal delivered while a tick's network call is outstanding, the
\* startup tick included, is held for the loop's signal wait at once: for as
\* long as that tick is in flight the process runs and signalCh holds the
\* signal.
C11_SignalCapturedDuringTick ==
    (ValidTLS /\ sigAt \in TickPCs /\ pc \in TickPCs /\ ~startedAfterSig) =>
        /\ exit = "running"
        /\ signalCh # <<>>

\* C12: every setting takes the value of its flag when the flag is given,
\* otherwise the value of its environment variable when that is set and not
\* empty, otherwise the built-in default.
ExpectedInterval ==
    IF flagInterval.given THEN Atoi(flagInterval.text).n
    ELSE IF envInterval # <<>> THEN Atoi(envInterval).n
    ELSE DefaultInterval

ExpectedStr(s) ==
    IF flagStr[s].given THEN flagStr[s].text
    ELSE IF envStr[s].set /\ envStr[s].text # "" THEN envStr[s].text
    ELSE Builtin[s]

C13_PointStateless ==
    /\ [](attempts > 0 =>
            /\ [point EXCEPT !.Timestamp = 0] =
                 [MetricName |-> "UnhealthyCount",
                  DimensionName |-> "By cluster",
                  DimensionValue |-> ExpectedStr("name"),
                  Maximum |-> count, Minimum |-> count, Sum |-> count,
                  SampleCount |-> 1,
                  Timestamp |-> 0,
                  Unit |-> "Count",
                  Namespace |-> ExpectedStr("namespace")]
            /\ (probe = "wf_true" => count = 0)
            /\ (probe \in ProbeFailures \cup {"wf_false"} => count = 1))
    /\ [][(pc \in TickPCs) => UNCHANGED <<cfgVars, startVars>>]_vars

\* the second tick, after a first whose PutMetricData failed, sends the point of
\* a healthy probe under the cluster name taken from the environment
C13_Witness ==
    /\ nTicks = 2 /\ pc = "put" /\ lastSink = "err" /\ probe = "wf_true"
    /\ point.Sum = 0 /\ point.SampleCount = 1 /\ point.Timestamp = 2
    /\ point.DimensionValue = "from-env"

\* the ticks the loop has started from ticker.C (all but the startup tick)
TimerTicks == IF nTicks = 0 THEN 0 ELSE nTicks - 1

\* C14: while the loop runs and no signal has been received, no firing of the
\* ticker is lost, also when a tick lasts longer than the interval: while a tick
\* of the loop is in flight, each firing so far has started a tick or is
\* waiting to start one.
C14_NoFiringLost ==
    (ValidTLS /\ ticker = "running" /\ registered /\ nSignals = 0
     /\ pc \in TickPCs) =>
        fired = TimerTicks + tickC

\* C14 as amended: every firing the loop receives from ticker.C starts exactly
\* one tick, which probes and then emits; no firing starts more than one tick;
\* a firing that occurs while one is still waiting is dropped.
C14_ReceivedFiringTicksOnce ==
    /\ []((ValidTLS /\ ticker = "running" /\ nSignals = 0) =>
            TimerTicks + tickC <= fired)
    /\ []((pc = "put" => probe # "none" /\ reports = 1)
          /\ (pc \in {"get", "readall"} => reports = 0))
    /\ [][(nTicks' # nTicks /\ ticker = "running") =>
            /\ pc = "select" /\ pc' = "get"
            /\ tickC = 1 /\ tickC' = 0
            /\ nTicks' = nTicks + 1
            /\ UNCHANGED fired]_vars
    /\ [][(fired' # fired) =>
            /\ fired' = fired + 1
            /\ tickC' = 1
            /\ UNCHANGED <<pc, nTicks>>]_vars

\* of three firings one has started the tick in flight, one waits and one was
\* dropped
C14_Witness ==
    /\ ValidTLS /\ nSignals = 0 /\ ticker = "running"
    /\ fired = 3 /\ nTicks = 2 /\ tickC = 1 /\ pc = "put" /\ reports = 1

\* C15: with valid configuration the first tick is not gated on the ticker: it
\* starts from main with no ticker and no firing, it is in flight only while no
\* ticker exists, and the ticker exists only once that tick's probe and emit
\* have returned, so every tick started from ticker.C comes after it.
C15_FirstTickBeforeTicker ==
    /\ [](ValidTLS =>
            /\ (ticker # "none" => nTicks >= 1 /\ sinkReturns >= 1)
            /\ ((nTicks = 0 \/ (nTicks = 1 /\ pc \in TickPCs)) =>
                    ticker = "none" /\ tickC = 0 /\ fired = 0)
            /\ ((nTicks = 1 /\ pc \in TickPCs) => retTo = "newticker")
            /\ (retTo = "select" => nTicks >= 2))
    /\ [][(pc = "firsttick" /\ pc' # pc) =>
            pc' = "get" /\ nTicks = 0 /\ nTicks' = 1 /\ ticker = "none"]_vars
    /\ [][(ticker = "none" /\ ticker' # "none") =>
            pc = "newticker" /\ nTicks = 1 /\ activeTicks = 0
            /\ outstanding = 0]_vars

\* the ticker has just been armed, after the one cycle of start-up, before any
\* firing
C15_Witness ==
    /\ ValidTLS /\ pc = "notify" /\ ticker = "running"
    /\ nTicks = 1 /\ attempts = 1 /\ sinkReturns = 1 /\ fired = 0

\* C16: once a signal is held for the loop, with every call of every tick
\* returning, the process ends with statusCode 0, also when a firing is ready every
\* time the loop comes back to its select.
C16_SignalLeadsToExit ==
    (registered /\ signalCh # <<>> /\ exit = "running") ~> (exit = "0")

\* the loop has ended with statusCode 0 after starting a tick while the signal was
\* already held, and with a firing still pending
C16_Witness ==
    /\ ~counting /\ exit = "0" /\ ticker = "stopped"
    /\ sigAt \in {"select"} \cup TickPCs /\ startedAfterSig /\ tickC = 1

\* C17: after signal.Notify a signal of any kind is held for the loop, none is
\* ignored and none ends the process by itself; the loop takes whatever signal
\* it holds the same way: it stops the ticker and ends with statusCode 0.
C17_AnySignalShutsDown ==
    /\ [][(registered /\ nSignals' # nSignals) =>
            /\ signalCh' # <<>>
            /\ (signalCh = <<>> => sigAt' # "none" /\ signalCh' \in {<<s>> : s \in Signals})
            /\ exit' = exit]_vars
    /\ [][(signalCh # <<>> /\ signalCh' = <<>>) =>
            pc = "select" /\ ticker' = "stopped" /\ exit' = "0"]_vars
    /\ [](exit = "0" => ticker = "stopped" /\ sigKind \in Signals)

\* the one signal of the run was a child-statusCode signal, and the process has
\* stopped the ticker and ended with statusCode 0
C17_Witness ==
    /\ ValidTLS /\ nSignals = 1 /\ sigKind = "SIGCHLD"
    /\ exit = "0" /\ ticker = "stopped" /\ signalCh = <<>>

\* C18: at most one firing is pending for the loop and a firing that finds one
\* pending changes nothing but the count of firings, so a tick started from
\* ticker.C leaves none pending behind it: at most one catch-up tick follows a
\* long tick.  Likewise at most one signal is held, and a signal that finds one
\* held is dropped.
C18_OnePendingAtMost ==
    /\ [](tickC \in {0, 1} /\ Len(signalCh) <= 1)
    /\ [][(fired' # fired /\ tickC = 1) =>
            UNCHANGED <<tickC, signalCh, pc, nTicks, exit, tickVars>>]_vars
    /\ [][(pc = "select" /\ pc' = "get") => tickC' = 0]_vars
    /\ [][(nSignals' # nSignals /\ signalCh # <<>>) =>
            UNCHANGED <<tickC, signalCh, pc, nTicks, exit, tickVars>>]_vars

\* the third tick is in flight: of three firings two have started a tick and one
\* was dropped, none is pending, and a signal is held
C18_Witness ==
    /\ ValidTLS /\ registered /\ pc \in TickPCs
    /\ nTicks = 3 /\ fired = 3 /\ tickC = 0 /\ Len(signalCh) = 1

\* the count that the result r of reading and decoding a body stands for
Verdict(r) == IF r.readErr \/ r.st.err THEN 1 ELSE IF r.st.IsHealthy THEN 0 ELSE 1

\* C19: the count of a tick depends on whether a response came and on its body,
\* never on the status code: with no response the count is 1, and for every
\* status code a body that decodes to health true gives 0 and one that decodes
\* to health false, or does not decode, gives 1.
C19_StatusCodeIgnored ==
    /\ [](pc = "put" =>
            /\ statusCode = 0 => probe = "transport" /\ count = 1
            /\ \A code \in StatusCodes :
                 statusCode = code =>
                    /\ probe \in ProbeClasses \ {"none", "transport"}
                    /\ probe = "wf_true" => count = 0
                    /\ probe \in {"wf_false", "missing", "nonjson", "truncated",
                                  "readerr"} => count = 1)
    /\ [][\A code \in StatusCodes :
            (pc = "readall" /\ statusCode = code /\ pc' # pc) =>
                /\ pc' = "put"
                /\ statusCode' = code
                /\ \E r \in ReadResults :
                     probe' = r.class /\ count' = Verdict(r)]_vars

\* a 503 response whose body says health true is counted healthy
C19_Witness ==
    pc = "put" /\ statusCode = 503 /\ probe = "wf_true" /\ count = 0 /\ puts = 1

====
